---- MODULE Spec2Model ----
(***************************************************************************)
(* A model of the capture-and-rollover engine of save_pcap (src/src/lib.rs).*)
(*                                                                         *)
(* One capturer is constructed (PcapCapturer::new), producers may obtain   *)
(* sender handles and submit packets, capture() is called once and runs    *)
(* one of the four capture loops until it returns.  The engine thread is   *)
(* cut at its only blocking point, the pull (Capture::next_packet or       *)
(* Receiver::recv): `pc` is "idle" before capture(), "loop" at the top of  *)
(* the loop, "create" between the two halves of a rollover (the old writer *)
(* dropped, the new file not yet created), "pull" while blocked in the     *)
(* pull and "done" after capture() has returned.  Wall-clock time is       *)
(* counted in whole seconds (the unit of the file name's timestamp and of  *)
(* elapsed.as_secs()); it advances only while the engine is blocked in the *)
(* pull.  The size test of check_needs_rollover is also modelled by itself *)
(* at the width of u64 (size_check), and the process-wide logger that      *)
(* capture() installs is part of the startup (logger_installed).           *)
(***************************************************************************)
EXTENDS Integers, Sequences, FiniteSets, TLC

\* ------------------------------------------------------------------ bounds
MaxPackets == 3      \* packets the source delivers / the producers submit
MaxTime == 2         \* seconds of wall-clock time that are explored
MaxTimeouts == 1     \* read timeouts of the device source that are explored
MaxProducers == 2    \* sender handles alive at once
MaxLimit == 2        \* largest packet_limit
MaxRollTime == 1     \* largest rollover_time_seconds
MaxRollCount == 2    \* largest rollover_packet_count
MaxRollMb == 1       \* largest rollover_file_size_mb
MaxFlushFaults == 1  \* failing flushes of an outgoing file that are explored

\* ------------------------------------------------------- program constants
Kib == 1024          \* max_size_mb * 1024 * 1024
TimeoutSecs == 1     \* timeout_ms: 1000, the longest one pull blocks a device

\* Option::None of the optional numbers (limit, thresholds, file name)
None == -1

\* Payload lengths (bytes) of the packets that are explored: half a binary
\* megabyte and one and a half, so that byte thresholds are met and overshot.
PacketLens == {512 * Kib, 1536 * Kib}

\* enum PacketSource
PacketSource == {"NetworkDevice", "UserProvided"}

\* enum FileFormat
FileFormat == {"Pcap", "PcapNg"}

\* struct PcapCaptureOptions with file_format among `formats` (snaplen and
\* timeout_ms are left at their defaults, file_path is the directory `dir`
\* and `disk` stand for).
OptionsOf(formats) ==
    [packet_source : PacketSource,
     file_prefix : {"capture"},
     file_format : formats,
     continuous_capture : BOOLEAN,
     packet_limit : {None} \cup (0..MaxLimit),
     rollover_time_seconds : {None} \cup (0..MaxRollTime),
     rollover_packet_count : {None} \cup (0..MaxRollCount),
     rollover_file_size_mb : {None} \cup (0..MaxRollMb)]

\* The options the engine is explored with.  file_format is read by
\* create_new_file and to pick capture_to_pcap or capture_to_pcapng, whose
\* bodies are the same; the loops are explored with Pcap, the naming of the
\* files with both formats (AllocatorOptions).
PcapCaptureOptions == OptionsOf({"Pcap"})

\* The scenario of the time-based rollover: rollover_time_seconds = 30 and a
\* source that delivers one packet per second for 65 seconds.
Scenario == [rollover_time_seconds |-> 30, seconds |-> 65]

\* The options of the scenario: continuous mode, the time threshold alone.
ScenarioOptions ==
    [packet_source : PacketSource,
     file_prefix : {"capture"},
     file_format : {"Pcap"},
     continuous_capture : {TRUE},
     packet_limit : {None},
     rollover_time_seconds : {Scenario.rollover_time_seconds},
     rollover_packet_count : {None},
     rollover_file_size_mb : {None}]

\* The options the file allocator is explored with: both formats, both
\* sources and modes, the packet-count threshold.
AllocatorOptions ==
    {o \in OptionsOf(FileFormat) :
        /\ o.packet_limit = None
        /\ o.rollover_time_seconds = None
        /\ o.rollover_file_size_mb = None
        /\ o.rollover_packet_count \in {None, 1}}

VARIABLES
    options,                    \* self.options
    pc,                         \* position of the engine thread
    result,                     \* what capture() returned ("running" before)
    ended_by,                   \* which exit of the loop was taken
    now,                        \* wall clock, whole seconds
    waited,                     \* seconds the current device pull has blocked
    timeouts,                   \* read timeouts so far
    queue,                      \* the channel: packets sent and not yet received
    producers,                  \* sender handles held by producers
    sent,                       \* packets submitted / delivered by the device
    packet_count_total,
    current_file_packet_count,
    current_file_size_bytes,
    file_creation_time,
    current_file_name,
    disk,                       \* the output directory: file name -> records
    closed,                     \* files closed by a rollover: name and packet count
    written,                    \* ids of the packets whose write succeeded
    policy_evaluated,           \* check_needs_rollover was called
    evaluations,                \* calls of check_needs_rollover
    allocs,                     \* calls of create_new_file
    dir,                        \* the output directory: exists, absent, or
                                \* absent and impossible to create ("blocked")
    device_listed,              \* Device::list() holds the configured name
    handle_open,                \* Capture::from_device(..).open() succeeded
    live_writers,               \* PcapWriter values that exist
    flush_faults,               \* failing flushes the storage is explored with
    logger_installed,           \* the process-wide logger of `log` is set
    size_check                  \* one run of the size test of
                                \* check_needs_rollover at the width of u64

vars == <<options, pc, result, ended_by, now, waited, timeouts, queue,
          producers, sent, packet_count_total, current_file_packet_count,
          current_file_size_bytes, file_creation_time, current_file_name,
          disk, closed, written, policy_evaluated, evaluations, allocs, dir,
          device_listed, handle_open, live_writers, flush_faults,
          logger_installed, size_check>>

counters == <<packet_count_total, current_file_packet_count,
              current_file_size_bytes>>
cursor == <<file_creation_time, current_file_name>>
source_vars == <<queue, producers, sent>>
clock == <<now, waited, timeouts>>
outcome == <<result, ended_by>>
startup == <<dir, device_listed, handle_open, logger_installed>>
policy_vars == <<policy_evaluated, evaluations>>
environment == <<options, flush_faults, size_check>>

IsDevice == options.packet_source = "NetworkDevice"

\* How many packets, seconds and read timeouts a session is explored for: the
\* scenario runs for its own length.
PacketHorizon ==
    IF options \in ScenarioOptions THEN Scenario.seconds ELSE MaxPackets
TimeHorizon ==
    IF options \in ScenarioOptions THEN Scenario.seconds ELSE MaxTime
TimeoutHorizon ==
    IF options \in ScenarioOptions THEN Scenario.seconds ELSE MaxTimeouts
IsUser == options.packet_source = "UserProvided"

\* ------------------------------------------------------------ pure helpers

\* Mutant of create_new_file: the timestamp has the resolution of a minute.
create_new_file_MinuteResolution ==
    [prefix |-> options.file_prefix,
     timestamp |-> (now \div 60) * 60,
     ext |-> IF options.file_format = "Pcap" THEN "pcap" ELSE "pcapng"]

\* Mutant of file_extension: pcap for both formats.
file_extension_PcapForBoth == "pcap"

\* let file_extension = match self.options.file_format { .. }
file_extension ==
    IF options.file_format = "Pcap" THEN "pcap" ELSE "pcapng"

\* create_new_file: the name is prefix_YYYYMMDD_HHMMSS.ext of the local time;
\* the timestamp has the resolution of the whole-second clock `now`.
create_new_file ==
    [prefix |-> options.file_prefix,
     timestamp |-> now,
     ext |-> file_extension]

\* The value of current_file_name before create_new_file has been called.
NoFile == [prefix |-> "", timestamp |-> None, ext |-> ""]

\* File::create: create the file, or truncate it when it exists.
FileCreate(d, name) ==
    [n \in (DOMAIN d) \cup {name} |-> IF n = name THEN <<>> ELSE d[n]]

\* PcapWriter::write_packet on the writer of `name`.
WritePacket(d, name, p) == [d EXCEPT ![name] = Append(@, p)]

\* Mutant of CeilingReached: a ceiling of zero is read as no ceiling.
CeilingReached_ZeroIsUnlimited(count) ==
    /\ options.packet_limit # None
    /\ options.packet_limit > 0
    /\ count >= options.packet_limit

\* Mutant of CeilingReached: the comparison is > instead of >=.
CeilingReached_OffByOne(count) ==
    /\ options.packet_limit # None
    /\ count > options.packet_limit

\* if let Some(limit) = packet_limit { if count >= limit { break } }
CeilingReached(count) ==
    /\ options.packet_limit # None
    /\ count >= options.packet_limit

\* let max_size_bytes = max_size_mb * 1024 * 1024
MaxSizeBytes(max_size_mb) == max_size_mb * Kib * Kib

\* Mutant of check_needs_rollover: the thresholds are compared with > .
check_needs_rollover_Strict(current_packet_count, size_bytes, elapsed) ==
    \/ /\ options.rollover_time_seconds # None
       /\ elapsed > options.rollover_time_seconds
    \/ /\ options.rollover_packet_count # None
       /\ current_packet_count > options.rollover_packet_count
    \/ /\ options.rollover_file_size_mb # None
       /\ size_bytes > MaxSizeBytes(options.rollover_file_size_mb)

\* Mutant of check_needs_rollover: an unconfigured time threshold is read as
\* zero (unwrap_or_default) instead of being skipped.
check_needs_rollover_NoneIsZero(current_packet_count, size_bytes, elapsed) ==
    \/ elapsed >= (IF options.rollover_time_seconds = None
                   THEN 0 ELSE options.rollover_time_seconds)
    \/ /\ options.rollover_packet_count # None
       /\ current_packet_count >= options.rollover_packet_count
    \/ /\ options.rollover_file_size_mb # None
       /\ size_bytes >= MaxSizeBytes(options.rollover_file_size_mb)

\* Mutant of check_needs_rollover: every configured threshold must be met.
check_needs_rollover_All(current_packet_count, size_bytes, elapsed) ==
    /\ \/ options.rollover_time_seconds # None
       \/ options.rollover_packet_count # None
       \/ options.rollover_file_size_mb # None
    /\ options.rollover_time_seconds # None =>
          elapsed >= options.rollover_time_seconds
    /\ options.rollover_packet_count # None =>
          current_packet_count >= options.rollover_packet_count
    /\ options.rollover_file_size_mb # None =>
          size_bytes >= MaxSizeBytes(options.rollover_file_size_mb)

\* fn check_needs_rollover; elapsed is file_creation_time.elapsed().as_secs()
check_needs_rollover(current_packet_count, size_bytes, elapsed) ==
    \/ /\ options.rollover_time_seconds # None
       /\ elapsed >= options.rollover_time_seconds
    \/ /\ options.rollover_packet_count # None
       /\ current_packet_count >= options.rollover_packet_count
    \/ /\ options.rollover_file_size_mb # None
       /\ size_bytes >= MaxSizeBytes(options.rollover_file_size_mb)

\* ------------------------------------------------- u64 arithmetic in limbs
\* A u64 is four limbs of 16 bits, the least significant first.
LimbBase == 65536
U64Limbs == 4
U64Bits == 64
U64Zero == [i \in 1..U64Limbs |-> 0]
U64Max == [i \in 1..U64Limbs |-> LimbBase - 1]

\* 2^k, and 2^k - 1, as u64 values.
U64Pow2(k) ==
    [i \in 1..U64Limbs |-> IF i = (k \div 16) + 1 THEN 2^(k % 16) ELSE 0]
U64Pow2Less1(k) ==
    [i \in 1..U64Limbs |->
        IF i < (k \div 16) + 1 THEN LimbBase - 1
        ELSE IF i = (k \div 16) + 1 THEN 2^(k % 16) - 1
        ELSE 0]

\* x * k + carry for a small k, limb by limb; the result has one limb more
\* than x, the carry out of the most significant limb.
RECURSIVE MulLimbs(_, _, _)
MulLimbs(x, k, carry) ==
    IF x = <<>>
    THEN <<carry>>
    ELSE LET p == Head(x) * k + carry
         IN  <<p % LimbBase>> \o MulLimbs(Tail(x), k, p \div LimbBase)

\* a >= b for two numbers of as many limbs.
RECURSIVE GeLimbs(_, _)
GeLimbs(a, b) ==
    IF a = <<>> THEN TRUE
    ELSE IF a[Len(a)] # b[Len(b)] THEN a[Len(a)] > b[Len(b)]
    ELSE GeLimbs(SubSeq(a, 1, Len(a) - 1), SubSeq(b, 1, Len(b) - 1))

\* The operator * of u64: the low 64 bits of the product, and whether the
\* product did not fit.
U64Mul(x, k) ==
    LET m == MulLimbs(x, k, 0)
    IN  [value |-> SubSeq(m, 1, U64Limbs), overflow |-> m[U64Limbs + 1] # 0]

\* The builds of the crate: with overflow checks (the dev profile) an
\* overflowing * panics, without them (the release profile) it wraps.
Builds == {"debug", "release"}

\* let max_size_bytes = max_size_mb * 1024 * 1024, in u64.
max_size_bytes(build, max_size_mb) ==
    LET a == U64Mul(max_size_mb, Kib)
        b == U64Mul(a.value, Kib)
    IN  IF build = "debug" /\ (a.overflow \/ b.overflow)
        THEN [status |-> "panic", value |-> U64Zero]
        ELSE [status |-> "value", value |-> b.value]

\* The size test of check_needs_rollover on u64 values: the threshold, and
\* current_file_size_bytes >= max_size_bytes; a panic gives no verdict.
size_threshold_check(build, max_size_mb, size_bytes) ==
    LET t == max_size_bytes(build, max_size_mb)
    IN  [status |-> t.status,
         max_size_bytes |-> t.value,
         needs_rollover |-> t.status = "value" /\ GeLimbs(size_bytes, t.value)]

\* No size test has run.
Pending ==
    [status |-> "pending", max_size_bytes |-> U64Zero, needs_rollover |-> FALSE]
NoSizeCheck ==
    [build |-> "release", max_size_mb |-> U64Zero, size_bytes |-> U64Zero,
     result |-> Pending]

\* The values of rollover_file_size_mb and of current_file_size_bytes the
\* size test is explored with: every power of two of the 64 bits, the value
\* below each, and u64::MAX.
U64Inputs ==
    {U64Pow2(k) : k \in 0..(U64Bits - 1)}
        \cup {U64Pow2Less1(k) : k \in 0..(U64Bits - 1)}
        \cup {U64Max}
SizeInputs == {U64Zero, U64Pow2(19), U64Pow2(20), U64Pow2(40), U64Max}

\* ------------------------------------------------------------------- Init
\* PcapCapturer::new: the channel exists for the user-supplied source, its
\* sender is kept in the capturer; nothing has been captured.
InitProcess(configurations, faults, loggers) ==
    /\ options \in configurations
    /\ logger_installed \in loggers
    /\ flush_faults = faults
    /\ pc = "idle"
    /\ result = "running"
    /\ ended_by = "none"
    /\ now = 0
    /\ waited = 0
    /\ timeouts = 0
    /\ queue = <<>>
    /\ producers = 0
    /\ sent = 0
    /\ packet_count_total = 0
    /\ current_file_packet_count = 0
    /\ current_file_size_bytes = 0
    /\ file_creation_time = 0
    /\ current_file_name = NoFile
    /\ disk = [n \in {} |-> <<>>]
    /\ closed = <<>>
    /\ written = <<>>
    /\ policy_evaluated = FALSE
    /\ evaluations = 0
    /\ allocs = 0
    /\ dir \in {"exists", "absent", "blocked"}
    /\ device_listed \in (IF IsDevice THEN BOOLEAN ELSE {FALSE})
    /\ handle_open = FALSE
    /\ live_writers = 0

\* The construction in a process in which no logger has been installed.
InitEngine(configurations, faults) ==
    InitProcess(configurations, faults, {FALSE})

\* The construction, with no size test run apart from the engine.
InitFaults(configurations, faults) ==
    /\ InitEngine(configurations, faults)
    /\ size_check = NoSizeCheck

\* The construction on a storage whose flushes succeed.
InitWith(configurations) == InitFaults(configurations, 0)

Init == InitWith(PcapCaptureOptions)

\* The same construction with the options of the file allocator's exploration.
InitAllocator == InitWith(AllocatorOptions)

\* --------------------------------------------------------------- producers

\* get_packet_sender: a clone of the capturer's sender, before capture().
GetPacketSender ==
    /\ IsUser
    /\ pc = "idle"
    /\ producers < MaxProducers
    /\ producers' = producers + 1
    /\ UNCHANGED <<environment, startup, pc, outcome, clock, queue, sent,
                   counters, cursor, disk, closed, written, policy_vars,
                   allocs, live_writers>>

\* Sender::send on the handle h: succeeds while the receiver exists, and the
\* receiver is a field of the capturer.  Ids number the packets in the order
\* of the sends.
SendFrom(h) ==
    /\ IsUser
    /\ producers > 0
    /\ sent < PacketHorizon
    /\ \E l \in PacketLens :
          queue' = Append(queue, [id |-> sent + 1, len |-> l, producer |-> h])
    /\ sent' = sent + 1
    /\ UNCHANGED <<environment, startup, pc, outcome, clock, producers, counters,
                   cursor, disk, closed, written, policy_vars, allocs,
                   live_writers>>

\* A send by some producer; which handle sent is not recorded.
Send == SendFrom(0)

\* A send by one of the handles alive, numbered 1..producers, recorded in the
\* packet.
SendTagged == \E h \in 1..producers : SendFrom(h)

\* A producer drops its handle.
DropSender ==
    /\ IsUser
    /\ producers > 0
    /\ producers' = producers - 1
    /\ UNCHANGED <<environment, startup, pc, outcome, clock, queue, sent,
                   counters, cursor, disk, closed, written, policy_vars,
                   allocs, live_writers>>

\* ------------------------------------------------------------------ engine

\* What File::create followed by PcapWriter::new (or PcapNgWriter::new) ends
\* in: a writer, an I/O error of File::create, or a failed header write.
WriterResults == {"Ok", "IoError", "PcapFileError"}

\* The file a failed or successful opening leaves on disk: File::create that
\* succeeded has created or truncated it, whatever the writer does after.
OpenFile(d, name, writer) ==
    IF writer = "IoError" THEN d ELSE FileCreate(d, name)

\* Mutant of StartupResult: the device is validated before the directory is
\* looked at.
StartupResult_DeviceFirst(list_ok, open_ok, writer) ==
    IF IsDevice /\ ~list_ok THEN "PcapError"
    ELSE IF IsDevice /\ ~device_listed THEN "InvalidDevice"
    ELSE IF dir = "blocked" THEN "DirectoryCreationFailed"
    ELSE IF IsDevice /\ ~open_ok THEN "PcapError"
    ELSE writer

\* What the startup of capture() returns for the outcomes of the calls it
\* makes, in the order of the code: the directory, the device list, the device
\* name, the capture handle, the first file.
StartupResult(list_ok, open_ok, writer) ==
    IF dir = "blocked" THEN "DirectoryCreationFailed"
    ELSE IF IsDevice /\ ~list_ok THEN "PcapError"
    ELSE IF IsDevice /\ ~device_listed THEN "InvalidDevice"
    ELSE IF IsDevice /\ ~open_ok THEN "PcapError"
    ELSE writer

\* env_logger::init(): installs the process-wide logger; panics when one is
\* installed already (try_init() returns SetLoggerError, init() unwraps it).
EnvLoggerInitPanics == logger_installed

\* capture(), from the call to the top of the loop: the logger is installed,
\* the output directory is created when it is missing, the device is looked
\* up and opened, the first (or only) file is named and created, the
\* counters start at zero.  Each failing call returns its error; a panic of
\* env_logger::init() unwinds out of capture() before anything else is done.
Capture ==
    /\ pc = "idle"
    /\ logger_installed' = TRUE
    /\ IF EnvLoggerInitPanics
       THEN /\ pc' = "done"
            /\ result' = "panic"
            /\ ended_by' = "startup"
            /\ UNCHANGED <<dir, handle_open, cursor, disk, allocs,
                           live_writers>>
       ELSE \E list_ok, open_ok \in BOOLEAN, writer \in WriterResults :
          LET dir_ok == dir # "blocked"
              device_ok == IsDevice => (list_ok /\ device_listed /\ open_ok)
              r == StartupResult(list_ok, open_ok, writer)
          IN  /\ dir' = IF dir = "absent" THEN "exists" ELSE dir
              /\ handle_open' = (IsDevice /\ dir_ok /\ device_ok)
              /\ IF dir_ok /\ device_ok
                 THEN /\ file_creation_time' = now
                      /\ current_file_name' = create_new_file
                      /\ disk' = OpenFile(disk, create_new_file, writer)
                      /\ allocs' = allocs + 1
                 ELSE UNCHANGED <<cursor, disk, allocs>>
              /\ IF r = "Ok"
                 THEN /\ pc' = "loop"
                      /\ live_writers' = live_writers + 1
                      /\ UNCHANGED outcome
                 ELSE /\ pc' = "done"
                      /\ result' = r
                      /\ ended_by' = "startup"
                      /\ UNCHANGED live_writers
    /\ packet_count_total' = 0
    /\ current_file_packet_count' = 0
    /\ current_file_size_bytes' = 0
    /\ UNCHANGED <<environment, device_listed, clock, source_vars, closed,
                   written, policy_vars>>

\* break out of the loop: the writer goes out of scope, Ok(()) is returned.
Finish(by) ==
    /\ pc' = "done"
    /\ result' = "Ok"
    /\ ended_by' = by
    /\ live_writers' = 0

\* Failed flushes of outgoing files so far (the error! of the rollover block).
FlushErrors == Cardinality({i \in 1..Len(closed) : ~closed[i].flushed})

\* What pcap_writer.flush() of the rollover block may return: Ok, or Err while
\* the storage has failures left.
FlushResults == IF FlushErrors < flush_faults THEN BOOLEAN ELSE {TRUE}

\* Mutant of Rollover: a failed flush of the outgoing file ends the loop.
Rollover_AbortsOnFlushError ==
    \E flush_ok \in FlushResults :
       /\ closed' = Append(closed, [name |-> current_file_name,
                                    packets |-> current_file_packet_count,
                                    flushed |-> flush_ok])
       /\ UNCHANGED waited
       /\ IF flush_ok
          THEN /\ live_writers' = live_writers - 1
               /\ current_file_name' = create_new_file
               /\ current_file_packet_count' = 0
               /\ current_file_size_bytes' = 0
               /\ file_creation_time' = now
               /\ allocs' = allocs + 1
               /\ pc' = "create"
          ELSE /\ live_writers' = 0
               /\ pc' = "done"
               /\ UNCHANGED <<current_file_packet_count,
                              current_file_size_bytes, cursor, allocs>>

\* Mutant of Rollover: the byte counter of the file is not reset.
Rollover_KeepsByteCounter ==
    /\ \E flush_ok \in FlushResults :
          closed' = Append(closed, [name |-> current_file_name,
                                    packets |-> current_file_packet_count,
                                    flushed |-> flush_ok])
    /\ live_writers' = live_writers - 1
    /\ current_file_name' = create_new_file
    /\ current_file_packet_count' = 0
    /\ UNCHANGED current_file_size_bytes
    /\ file_creation_time' = now
    /\ allocs' = allocs + 1
    /\ pc' = "create"
    /\ UNCHANGED waited

\* Mutant of Rollover: the old writer is not dropped before the new file is
\* made.
Rollover_KeepsOldWriter ==
    /\ \E flush_ok \in FlushResults :
          closed' = Append(closed, [name |-> current_file_name,
                                    packets |-> current_file_packet_count,
                                    flushed |-> flush_ok])
    /\ UNCHANGED live_writers
    /\ current_file_name' = create_new_file
    /\ current_file_packet_count' = 0
    /\ current_file_size_bytes' = 0
    /\ file_creation_time' = now
    /\ allocs' = allocs + 1
    /\ pc' = "create"
    /\ UNCHANGED waited

\* The rollover block of the continuous loops up to File::create: the old
\* writer is flushed -- a failure is logged and nothing else -- and dropped, a
\* new name is made, the per-file counters restart.
Rollover ==
    /\ \E flush_ok \in FlushResults :
          closed' = Append(closed, [name |-> current_file_name,
                                    packets |-> current_file_packet_count,
                                    flushed |-> flush_ok])
    /\ live_writers' = live_writers - 1
    /\ current_file_name' = create_new_file
    /\ current_file_packet_count' = 0
    /\ current_file_size_bytes' = 0
    /\ file_creation_time' = now
    /\ allocs' = allocs + 1
    /\ pc' = "create"
    /\ UNCHANGED waited

\* Mutant of ContinuousLoopTop: the rollover is evaluated and taken before the
\* ceiling is checked.
ContinuousLoopTop_RollsBeforeCeiling ==
    /\ pc = "loop"
    /\ options.continuous_capture
    /\ IF check_needs_rollover(current_file_packet_count,
                               current_file_size_bytes,
                               now - file_creation_time)
       THEN /\ policy_evaluated' = TRUE
            /\ evaluations' = evaluations + 1
            /\ UNCHANGED <<outcome, packet_count_total>>
            /\ Rollover
       ELSE IF CeilingReached(packet_count_total)
       THEN /\ Finish("ceiling")
            /\ UNCHANGED <<counters, cursor, closed, allocs,
                           policy_vars, waited>>
       ELSE /\ policy_evaluated' = TRUE
            /\ evaluations' = evaluations + 1
            /\ pc' = "pull"
            /\ waited' = 0
            /\ UNCHANGED <<outcome, counters, cursor, closed, allocs,
                           live_writers>>
    /\ UNCHANGED <<environment, startup, now, timeouts, source_vars, written,
                   disk>>

\* The top of a continuous loop up to the pull, or up to File::create of a
\* rollover: ceiling check, rollover evaluation, the rollover's first half.
ContinuousLoopTop ==
    /\ pc = "loop"
    /\ options.continuous_capture
    /\ IF CeilingReached(packet_count_total)
       THEN /\ Finish("ceiling")
            /\ UNCHANGED <<counters, cursor, closed, allocs,
                           policy_vars, waited>>
       ELSE /\ policy_evaluated' = TRUE
            /\ evaluations' = evaluations + 1
            /\ UNCHANGED <<outcome, packet_count_total>>
            /\ IF check_needs_rollover(current_file_packet_count,
                                       current_file_size_bytes,
                                       now - file_creation_time)
               THEN Rollover
               ELSE /\ pc' = "pull"
                    /\ waited' = 0
                    /\ UNCHANGED <<current_file_packet_count,
                                   current_file_size_bytes, cursor, closed,
                                   allocs, live_writers>>
    /\ UNCHANGED <<environment, startup, now, timeouts, source_vars, written,
                   disk>>

\* The second half of a rollover: File::create and PcapWriter::new on the new
\* name; either failing returns its error.
OpenRolledFile ==
    /\ pc = "create"
    /\ \E writer \in WriterResults :
          /\ disk' = OpenFile(disk, current_file_name, writer)
          /\ IF writer = "Ok"
             THEN /\ live_writers' = live_writers + 1
                  /\ pc' = "pull"
                  /\ waited' = 0
                  /\ UNCHANGED outcome
             ELSE /\ pc' = "done"
                  /\ result' = writer
                  /\ ended_by' = "create_error"
                  /\ UNCHANGED <<live_writers, waited>>
    /\ UNCHANGED <<environment, startup, now, timeouts, source_vars, counters,
                   cursor, closed, written, policy_vars, allocs>>

\* Mutant of SingleShotLoopTop: the single-shot loop runs the rollover block
\* of the continuous loops.
SingleShotLoopTop_Rolls ==
    /\ pc = "loop"
    /\ ~options.continuous_capture
    /\ IF CeilingReached(packet_count_total)
       THEN /\ Finish("ceiling")
            /\ UNCHANGED <<counters, cursor, closed, allocs,
                           policy_vars, waited>>
       ELSE /\ policy_evaluated' = TRUE
            /\ evaluations' = evaluations + 1
            /\ UNCHANGED <<outcome, packet_count_total>>
            /\ IF check_needs_rollover(current_file_packet_count,
                                       current_file_size_bytes,
                                       now - file_creation_time)
               THEN Rollover
               ELSE /\ pc' = "pull"
                    /\ waited' = 0
                    /\ UNCHANGED <<current_file_packet_count,
                                   current_file_size_bytes, cursor, closed,
                                   allocs, live_writers>>
    /\ UNCHANGED <<environment, startup, now, timeouts, source_vars, written,
                   disk>>

\* Mutant of SingleShotLoopTop: the ceiling is compared with > .
SingleShotLoopTop_OffByOne ==
    /\ pc = "loop"
    /\ ~options.continuous_capture
    /\ IF CeilingReached_OffByOne(packet_count_total)
       THEN Finish("ceiling") /\ UNCHANGED waited
       ELSE pc' = "pull" /\ waited' = 0 /\ UNCHANGED <<outcome, live_writers>>
    /\ UNCHANGED <<environment, startup, now, timeouts, source_vars, counters,
                   cursor, disk, closed, written, policy_vars, allocs>>

\* The top of a single-shot loop (capture_to_pcap, capture_to_pcapng,
\* user_packets_to_pcap): the ceiling check only.
SingleShotLoopTop ==
    /\ pc = "loop"
    /\ ~options.continuous_capture
    /\ IF CeilingReached(packet_count_total)
       THEN Finish("ceiling") /\ UNCHANGED waited
       ELSE pc' = "pull" /\ waited' = 0 /\ UNCHANGED <<outcome, live_writers>>
    /\ UNCHANGED <<environment, startup, now, timeouts, source_vars, counters,
                   cursor, disk, closed, written, policy_vars, allocs>>

\* Mutant of CountPacket: the session total is not incremented.
CountPacket_SkipsTotal(p) ==
    /\ UNCHANGED packet_count_total
    /\ IF options.continuous_capture
       THEN /\ current_file_packet_count' = current_file_packet_count + 1
            /\ current_file_size_bytes' = current_file_size_bytes + p.len
       ELSE UNCHANGED <<current_file_packet_count, current_file_size_bytes>>

\* The counter updates after a successful write.  The single-shot loops keep
\* the one counter packet_count.
CountPacket(p) ==
    /\ packet_count_total' = packet_count_total + 1
    /\ IF options.continuous_capture
       THEN /\ current_file_packet_count' = current_file_packet_count + 1
            /\ current_file_size_bytes' = current_file_size_bytes + p.len
       ELSE UNCHANGED <<current_file_packet_count, current_file_size_bytes>>

\* Mutant of HandlePacket: the packet is counted before the result of the write
\* is looked at.
HandlePacket_CountsFailedWrite(p, write_ok) ==
    IF write_ok
    THEN /\ disk' = WritePacket(disk, current_file_name, p)
         /\ written' = Append(written, p.id)
         /\ CountPacket(p)
         /\ pc' = "loop"
         /\ UNCHANGED <<outcome, live_writers>>
    ELSE /\ pc' = "done"
         /\ result' = "PcapFileError"
         /\ ended_by' = "write_error"
         /\ live_writers' = 0
         /\ CountPacket(p)
         /\ UNCHANGED <<disk, written>>

\* The Ok arm of the pull: the packet is written; a failed write returns
\* PcapFileError, a successful one is counted.
HandlePacket(p, write_ok) ==
    IF write_ok
    THEN /\ disk' = WritePacket(disk, current_file_name, p)
         /\ written' = Append(written, p.id)
         /\ CountPacket(p)
         /\ pc' = "loop"
         /\ UNCHANGED <<outcome, live_writers>>
    ELSE /\ pc' = "done"
         /\ result' = "PcapFileError"
         /\ ended_by' = "write_error"
         /\ live_writers' = 0
         /\ UNCHANGED <<disk, written, counters>>

\* cap.next_packet() returns Ok(packet).
DevicePacket ==
    /\ pc = "pull"
    /\ IsDevice
    /\ sent < PacketHorizon
    /\ sent' = sent + 1
    /\ \E l \in PacketLens, write_ok \in BOOLEAN :
          HandlePacket([id |-> sent + 1, len |-> l, producer |-> 0],
                       write_ok)
    /\ UNCHANGED <<environment, startup, clock, queue, producers, cursor, closed,
                   policy_vars, allocs>>

\* Mutant of DeviceTimeout: the timeout is counted as a packet of the file.
DeviceTimeout_CountsAsPacket ==
    /\ pc = "pull"
    /\ IsDevice
    /\ timeouts < TimeoutHorizon
    /\ timeouts' = timeouts + 1
    /\ pc' = "loop"
    /\ current_file_packet_count' = current_file_packet_count + 1
    /\ UNCHANGED <<environment, startup, outcome, now, waited, source_vars,
                   packet_count_total, current_file_size_bytes, cursor, disk,
                   closed, written, policy_vars, allocs, live_writers>>

\* cap.next_packet() returns an error whose text contains "timeout": continue.
DeviceTimeout ==
    /\ pc = "pull"
    /\ IsDevice
    /\ timeouts < TimeoutHorizon
    /\ timeouts' = timeouts + 1
    /\ pc' = "loop"
    /\ UNCHANGED <<environment, startup, outcome, now, waited, source_vars,
                   counters, cursor, disk, closed, written, policy_vars,
                   allocs, live_writers>>

\* Mutant of DeviceError: the error is logged and the pull is retried.
DeviceError_Retries ==
    /\ pc = "pull"
    /\ IsDevice
    /\ pc' = "loop"
    /\ ended_by' = "source_error"
    /\ UNCHANGED <<result, live_writers>>
    /\ UNCHANGED <<environment, startup, clock, source_vars, counters, cursor, disk,
                   closed, written, policy_vars, allocs>>

\* cap.next_packet() returns any other error: error!(..); break.
DeviceError ==
    /\ pc = "pull"
    /\ IsDevice
    /\ Finish("source_error")
    /\ UNCHANGED <<environment, startup, clock, source_vars, counters, cursor, disk,
                   closed, written, policy_vars, allocs>>

\* Senders of the channel that are alive: the producers' handles and the
\* capturer's own packet_sender field, which lives as long as the capturer.
LiveSenders == producers + 1

\* Mutant of Recv: the newest packet of the channel is received first.
Recv_TakesNewest ==
    /\ pc = "pull"
    /\ IsUser
    /\ IF queue # <<>>
       THEN /\ queue' = SubSeq(queue, 1, Len(queue) - 1)
            /\ \E write_ok \in BOOLEAN :
                  HandlePacket(queue[Len(queue)], write_ok)
       ELSE /\ LiveSenders = 0
            /\ Finish("disconnect")
            /\ UNCHANGED <<queue, counters, disk, written>>
    /\ UNCHANGED <<environment, startup, clock, producers, sent, cursor, closed,
                   policy_vars, allocs>>

\* receiver.recv(): Ok(user_packet) with the head of the channel; Err once the
\* channel is empty and no sender is left; blocked otherwise.
Recv ==
    /\ pc = "pull"
    /\ IsUser
    /\ IF queue # <<>>
       THEN /\ queue' = Tail(queue)
            /\ \E write_ok \in BOOLEAN : HandlePacket(Head(queue), write_ok)
       ELSE /\ LiveSenders = 0
            /\ Finish("disconnect")
            /\ UNCHANGED <<queue, counters, disk, written>>
    /\ UNCHANGED <<environment, startup, clock, producers, sent, cursor, closed,
                   policy_vars, allocs>>

\* A second of wall-clock time passes while the engine is blocked in the
\* pull: a device pull blocks for the read timeout at most, recv() for as
\* long as the channel is empty.
Tick ==
    /\ pc = "pull"
    /\ now < TimeHorizon
    /\ IF IsDevice THEN waited < TimeoutSecs ELSE queue = <<>>
    /\ now' = now + 1
    /\ waited' = IF IsDevice THEN waited + 1 ELSE waited
    /\ UNCHANGED <<environment, startup, pc, outcome, timeouts, source_vars,
                   counters, cursor, disk, closed, written, policy_vars,
                   allocs, live_writers>>

\* The steps of the engine thread.
EngineNext ==
    \/ Capture
    \/ ContinuousLoopTop
    \/ OpenRolledFile
    \/ SingleShotLoopTop
    \/ DevicePacket
    \/ DeviceTimeout
    \/ DeviceError
    \/ Recv

Next ==
    \/ GetPacketSender
    \/ Send
    \/ DropSender
    \/ Capture
    \/ ContinuousLoopTop
    \/ OpenRolledFile
    \/ SingleShotLoopTop
    \/ DevicePacket
    \/ DeviceTimeout
    \/ DeviceError
    \/ Recv
    \/ Tick

Spec == Init /\ [][Next]_vars

\* The options of the exploration of concurrent producers: the user-supplied
\* source.
ProducerOptions ==
    {o \in PcapCaptureOptions : o.packet_source = "UserProvided"}

InitProducers == InitWith(ProducerOptions)

\* The steps of a session on the user-supplied source, with the sending
\* handle recorded in every packet.
NextProducers ==
    \/ GetPacketSender
    \/ SendTagged
    \/ DropSender
    \/ Capture
    \/ ContinuousLoopTop
    \/ OpenRolledFile
    \/ SingleShotLoopTop
    \/ Recv
    \/ Tick

SpecProducers == InitProducers /\ [][NextProducers]_vars

\* The options of the exploration of termination: single-shot mode with a
\* global ceiling.
SingleShotOptions ==
    {o \in PcapCaptureOptions :
        ~o.continuous_capture /\ o.packet_limit # None}

InitSingleShot == InitWith(SingleShotOptions)

\* The steps of a single-shot session.
NextSingleShot ==
    \/ GetPacketSender
    \/ Send
    \/ DropSender
    \/ Capture
    \/ SingleShotLoopTop
    \/ DevicePacket
    \/ DeviceTimeout
    \/ DeviceError
    \/ Recv
    \/ Tick

\* A single-shot session whose engine thread keeps running and whose
\* producers, while they hold a handle, keep submitting.
FairSpec ==
    /\ InitSingleShot
    /\ [][NextSingleShot]_vars
    /\ WF_vars(EngineNext)
    /\ WF_vars(Send)

\* The single-shot sessions, with and without a ceiling.
InitSingleShotAll ==
    InitWith({o \in PcapCaptureOptions : ~o.continuous_capture})

SpecSingleShot == InitSingleShotAll /\ [][NextSingleShot]_vars

InitScenario == InitWith(ScenarioOptions)

\* The source keeps the scenario's schedule: packet k is delivered (submitted)
\* in second k - 1, and every packet carries half a binary megabyte.
OnSchedule ==
    /\ sent \in {now, now + 1}
    /\ \A i \in 1..Len(queue) : queue[i].len = 512 * Kib
    /\ \A n \in DOMAIN disk :
          \A i \in 1..Len(disk[n]) : disk[n][i].len = 512 * Kib

\* The steps of a continuous session whose source keeps the schedule.
NextScenario ==
    /\ \/ GetPacketSender
       \/ Send
       \/ DropSender
       \/ Capture
       \/ ContinuousLoopTop
       \/ OpenRolledFile
       \/ DevicePacket
       \/ DeviceTimeout
       \/ DeviceError
       \/ Recv
       \/ Tick
    /\ OnSchedule'

SpecScenario == InitScenario /\ [][NextScenario]_vars

\* The engine on the options of the file allocator's exploration.
SpecAllocator == InitAllocator /\ [][Next]_vars

\* The options of the exploration of failing flushes: continuous mode without
\* a ceiling, rolling over by age or by packet count.
FlushOptions ==
    {o \in PcapCaptureOptions :
        /\ o.continuous_capture
        /\ o.packet_limit = None
        /\ o.rollover_file_size_mb = None}

\* The construction on a storage that fails up to MaxFlushFaults flushes.
InitFlush == InitFaults(FlushOptions, MaxFlushFaults)

\* The steps of a continuous session.
NextContinuous ==
    \/ GetPacketSender
    \/ Send
    \/ DropSender
    \/ Capture
    \/ ContinuousLoopTop
    \/ OpenRolledFile
    \/ DevicePacket
    \/ DeviceTimeout
    \/ DeviceError
    \/ Recv
    \/ Tick

SpecFlush == InitFlush /\ [][NextContinuous]_vars

\* The options of the exploration of the process-wide logger: both sources
\* and modes, the packet-count threshold.
LoggerOptions ==
    {o \in PcapCaptureOptions :
        /\ o.packet_limit = None
        /\ o.rollover_time_seconds = None
        /\ o.rollover_file_size_mb = None
        /\ o.rollover_packet_count \in {None, 1}}

\* The construction in a process in which a logger may have been installed
\* already, by an earlier capture() of another capturer or by other code.
InitLogger ==
    /\ InitProcess(LoggerOptions, 0, BOOLEAN)
    /\ size_check = NoSizeCheck

\* The caller installs a logger before it calls capture(), as main() of the
\* examples does with env_logger::init().
InstallLogger ==
    /\ pc = "idle"
    /\ ~logger_installed
    /\ logger_installed' = TRUE
    /\ UNCHANGED <<environment, dir, device_listed, handle_open, pc, outcome,
                   clock, source_vars, counters, cursor, disk, closed,
                   written, policy_vars, allocs, live_writers>>

NextLogger ==
    \/ InstallLogger
    \/ Next

SpecLogger == InitLogger /\ [][NextLogger]_vars

\* The capturer of the exploration of the size test: the default options
\* with continuous capture.
ThresholdOptions ==
    {o \in PcapCaptureOptions :
        /\ o.packet_source = "NetworkDevice"
        /\ o.continuous_capture
        /\ o.packet_limit = None
        /\ o.rollover_time_seconds = None
        /\ o.rollover_packet_count = None
        /\ o.rollover_file_size_mb = None}

\* A configured size, a byte count of the current file and a build, before
\* the size test runs.
InitThreshold ==
    /\ InitEngine(ThresholdOptions, 0)
    /\ size_check \in [build : Builds, max_size_mb : U64Inputs,
                        size_bytes : SizeInputs, result : {Pending}]

\* The size test of check_needs_rollover runs on the configured size.
CheckSizeThreshold ==
    /\ size_check.result.status = "pending"
    /\ size_check' =
          [size_check EXCEPT !.result =
              size_threshold_check(size_check.build, size_check.max_size_mb,
                                   size_check.size_bytes)]
    /\ UNCHANGED <<options, flush_faults, startup, pc, outcome, clock,
                   source_vars, counters, cursor, disk, closed, written,
                   policy_vars, allocs, live_writers>>

SpecThreshold == InitThreshold /\ [][CheckSizeThreshold]_vars

\* ------------------------------------------------------------------ claims

Continuous == options.continuous_capture /\ pc # "idle"
Running == pc \in {"loop", "pull"}
Started == pc # "idle" /\ ended_by # "startup"
Ids(s) == {s[i].id : i \in 1..Len(s)}
FilesHolding(id) == {n \in DOMAIN disk : id \in Ids(disk[n])}
Last(s) == s[Len(s)]

RECURSIVE SumLen(_)
SumLen(s) == IF s = <<>> THEN 0 ELSE s[1].len + SumLen(Tail(s))

RECURSIVE SumPackets(_)
SumPackets(s) == IF s = <<>> THEN 0 ELSE s[1].packets + SumPackets(Tail(s))

\* C1: in continuous mode, when the session has ended every packet whose
\* write succeeded is present in exactly one output file on disk.
C1_NoWrittenPacketLost ==
    (options.continuous_capture /\ pc = "done") =>
        \A i \in 1..Len(written) : Cardinality(FilesHolding(written[i])) = 1

\* C2: user-supplied source without a ceiling: once the producers have
\* submitted packets and dropped all their handles, the engine is never stuck
\* -- it can drain the channel or return.
C2_NotBlockedAfterLastHandleDropped ==
    (/\ IsUser
     /\ options.packet_limit = None
     /\ Running
     /\ sent >= 1
     /\ producers = 0) => ENABLED EngineNext

\* C3: with a ceiling L configured the session total never exceeds L, and the
\* engine is never in the pull with the total at L.
C3_TotalNeverExceedsCeiling ==
    options.packet_limit # None =>
        /\ packet_count_total <= options.packet_limit
        /\ Len(written) <= options.packet_limit
        /\ pc = "pull" => packet_count_total < options.packet_limit

\* Reached: a session with a ceiling of at least two ended by the ceiling while
\* the source had more packets to give.
C3_Witness ==
    /\ options.packet_limit # None
    /\ options.packet_limit >= 2
    /\ packet_count_total = options.packet_limit
    /\ Len(written) = options.packet_limit
    /\ sent > packet_count_total
    /\ ended_by = "ceiling"

\* The session total against the ghost record of the writes and of the files.
C4_TotalMatches ==
    options.continuous_capture =>
        /\ packet_count_total = Len(written)
        /\ packet_count_total = SumPackets(closed) + current_file_packet_count

\* C4: in a continuous session the total equals the number of successful
\* writes and the packets of the closed files plus those of the current file;
\* each step leaves it or adds one, and adds one exactly with a successful
\* write -- a rollover never resets or lowers it.
C4_TotalIsSumOfFiles ==
    /\ C4_TotalMatches
    /\ [][/\ C4_TotalMatches'
          /\ packet_count_total' \in {packet_count_total, packet_count_total + 1}
          /\ (packet_count_total' = packet_count_total + 1)
                <=> (Len(written') = Len(written) + 1)]_vars

\* Reached: two rollovers have closed files and the current file holds packets.
C4_Witness ==
    /\ options.continuous_capture
    /\ Len(closed) >= 2
    /\ closed[1].packets >= 1
    /\ current_file_packet_count >= 1
    /\ packet_count_total = MaxPackets

\* The byte threshold of the configured rollover_file_size_mb.
ByteThreshold == MaxSizeBytes(options.rollover_file_size_mb)

\* C5 (as stated): with rollover_file_size_mb = M the bytes of a file exceed
\* M * 1,048,576 by less than the length of the last packet written to it, and
\* with rollover_packet_count = N >= 1 no file holds more than N packets.
C5_OvershootLessThanLastPacket ==
    Continuous =>
        /\ (options.rollover_packet_count # None
              /\ options.rollover_packet_count >= 1) =>
                /\ current_file_packet_count <= options.rollover_packet_count
                /\ \A n \in DOMAIN disk :
                      Len(disk[n]) <= options.rollover_packet_count
        /\ options.rollover_file_size_mb # None =>
                /\ current_file_packet_count > 0 =>
                      current_file_size_bytes - ByteThreshold
                          < Last(disk[current_file_name]).len
                /\ \A n \in DOMAIN disk : disk[n] # <<>> =>
                      SumLen(disk[n]) - ByteThreshold < Last(disk[n]).len

\* C5 (amended): the bytes of a file exceed the byte threshold by at most the
\* length of the last packet written to it, and by less than that length when
\* M >= 1; with N >= 1 no file holds more than N packets.
C5_OvershootAtMostLastPacket ==
    Continuous =>
        /\ (options.rollover_packet_count # None
              /\ options.rollover_packet_count >= 1) =>
                /\ current_file_packet_count <= options.rollover_packet_count
                /\ \A n \in DOMAIN disk :
                      Len(disk[n]) <= options.rollover_packet_count
        /\ options.rollover_file_size_mb # None =>
                /\ current_file_packet_count > 0 =>
                      /\ current_file_size_bytes - ByteThreshold
                            <= Last(disk[current_file_name]).len
                      /\ options.rollover_file_size_mb >= 1 =>
                            current_file_size_bytes - ByteThreshold
                                < Last(disk[current_file_name]).len
                /\ \A n \in DOMAIN disk : disk[n] # <<>> =>
                      /\ SumLen(disk[n]) - ByteThreshold <= Last(disk[n]).len
                      /\ options.rollover_file_size_mb >= 1 =>
                            SumLen(disk[n]) - ByteThreshold < Last(disk[n]).len

\* Reached: the current file sits at its packet threshold and has overshot its
\* byte threshold of at least one binary megabyte.
C5_Witness ==
    /\ Continuous
    /\ options.rollover_packet_count # None
    /\ options.rollover_packet_count >= 2
    /\ current_file_packet_count = options.rollover_packet_count
    /\ options.rollover_file_size_mb # None
    /\ options.rollover_file_size_mb >= 1
    /\ current_file_size_bytes > ByteThreshold

\* C6: in continuous mode with rollover_time_seconds = T, a packet is written
\* only to a file whose age exceeds T by no more than the time one pull of the
\* device blocks, for the device source and for the user-supplied source.
C6_AgeAtWriteBounded ==
    [][(/\ options.continuous_capture
        /\ options.rollover_time_seconds # None
        /\ Len(written') = Len(written) + 1)
          => now - file_creation_time
                <= options.rollover_time_seconds + TimeoutSecs]_vars

\* C7: with continuous mode disabled a session past startup has created
\* exactly one file and has never evaluated the rollover policy, whatever the
\* thresholds.
C7_SingleShotOneFile ==
    (~options.continuous_capture /\ Started) =>
        /\ allocs = 1
        /\ Cardinality(DOMAIN disk) = 1
        /\ closed = <<>>
        /\ ~policy_evaluated

\* Reached: a single-shot session with all three thresholds configured and met
\* has ended after two packets and two seconds.
C7_Witness ==
    /\ ~options.continuous_capture
    /\ options.rollover_time_seconds = 1
    /\ options.rollover_packet_count = 1
    /\ options.rollover_file_size_mb = 1
    /\ pc = "done"
    /\ Len(written) >= 2
    /\ now >= 2

\* All three rollover thresholds are unconfigured.
NoThreshold ==
    /\ options.rollover_time_seconds = None
    /\ options.rollover_packet_count = None
    /\ options.rollover_file_size_mb = None

\* C8: in continuous mode with no threshold configured no rollover happens:
\* one file is allocated and every packet written is in it.
C8_NoThresholdNoRollover ==
    (options.continuous_capture /\ NoThreshold /\ Started) =>
        /\ closed = <<>>
        /\ allocs = 1
        /\ DOMAIN disk = {current_file_name}
        /\ Len(disk[current_file_name]) = Len(written)

\* Reached: a continuous device session without thresholds has evaluated the
\* policy, written packets, timed out and aged.
C8_Witness ==
    /\ options.continuous_capture
    /\ NoThreshold
    /\ IsDevice
    /\ policy_evaluated
    /\ Len(written) >= 2
    /\ timeouts >= 1
    /\ now >= 2

\* C9: continuous mode, rollover_packet_count = N, ceiling L = k * N, the
\* source supplied L packets: the session ended by the ceiling with exactly k
\* files of exactly N packets each, and no file was allocated after packet L.
C9_KFilesOfNPackets ==
    (/\ options.continuous_capture
     /\ options.rollover_time_seconds = None
     /\ options.rollover_file_size_mb = None
     /\ options.rollover_packet_count # None
     /\ options.rollover_packet_count >= 1
     /\ options.packet_limit # None
     /\ options.packet_limit >= 1
     /\ options.packet_limit % options.rollover_packet_count = 0
     /\ pc = "done"
     /\ packet_count_total = options.packet_limit) =>
        /\ result = "Ok"
        /\ ended_by = "ceiling"
        /\ allocs * options.rollover_packet_count = options.packet_limit
        /\ Cardinality(DOMAIN disk) * options.rollover_packet_count
              = options.packet_limit
        /\ \A n \in DOMAIN disk :
              Len(disk[n]) = options.rollover_packet_count

\* C10: in continuous mode on the device source a hard capture error does not
\* end the session.
C10_HardErrorDoesNotEndSession ==
    (options.continuous_capture /\ IsDevice /\ ended_by = "source_error") =>
        pc # "done"

\* Packets the engine has taken from its source.
Pulled == IF IsDevice THEN sent ELSE sent - Len(queue)

\* C11: a failed append ends the session with PcapFileError in that step: the
\* counters, the files and the allocations are as before the step, the packet
\* is the only one pulled and not written, and afterwards nothing is pulled,
\* written, counted or allocated.
C11_WriteFailureAborts ==
    [][/\ (ended_by' = "write_error" /\ ended_by # "write_error") =>
                /\ pc = "pull"
                /\ pc' = "done"
                /\ result' = "PcapFileError"
                /\ Pulled' = Len(written) + 1
                /\ packet_count_total = Len(written)
                /\ UNCHANGED <<counters, cursor, disk, written, closed, allocs>>
       /\ ended_by = "write_error" =>
                /\ UNCHANGED <<pc, outcome, counters, cursor, disk, written,
                               closed, allocs>>
                /\ Pulled' = Pulled]_vars

\* Reached: in a continuous session a write failed after a rollover, with
\* packets already counted in the session and in the current file.
C11_Witness ==
    /\ ended_by = "write_error"
    /\ options.continuous_capture
    /\ Len(closed) >= 1
    /\ current_file_packet_count >= 1
    /\ packet_count_total >= 2

\* The step in which capture() runs its startup on a device source whose
\* configured name the enumeration does not hold.
AbsentDeviceStartup == pc = "idle" /\ pc' # "idle" /\ IsDevice /\ ~device_listed

\* C12: on a device source whose name is not among the enumerated devices
\* capture() fails with InvalidDevice (PcapError when the enumeration itself
\* fails) before capturing: no file is named or created, no handle is opened,
\* no packet is pulled, in single-shot and in continuous mode.
C12_InvalidDeviceBeforeCapturing ==
    [][AbsentDeviceStartup =>
          /\ pc' = "done"
          /\ result' \in {"InvalidDevice", "PcapError"}
          /\ ~handle_open'
          /\ live_writers' = 0
          /\ UNCHANGED <<disk, allocs, current_file_name, sent, written,
                         counters>>]_vars

\* C13: startup validates the device before it creates the output directory:
\* with an absent device name and a directory that does not exist the step
\* returns InvalidDevice (PcapError when the enumeration itself fails), never
\* DirectoryCreationFailed, and leaves the directory as it was.
C13_DeviceValidatedBeforeDirectory ==
    [][(AbsentDeviceStartup /\ dir # "exists") =>
          /\ result' \in {"InvalidDevice", "PcapError"}
          /\ dir' = dir]_vars

\* C14: once capture() has returned no submit of a producer succeeds: the
\* channel accepts no further packet, so none is accepted that will never be
\* written.
C14_SubmitFailsAfterSessionEnd ==
    [][pc = "done" => (sent' = sent /\ queue' = queue)]_vars

\* The names the allocator has returned that are held by the engine or by the
\* output directory.
AllocatedNames ==
    (IF allocs >= 1 THEN {current_file_name} ELSE {})
        \cup DOMAIN disk \cup {closed[i].name : i \in 1..Len(closed)}

\* C20 (as stated): every allocated name is the prefix, the second of the
\* allocation and the extension pcap, for both container formats.
C20_ExtensionPcapForBoth ==
    \A n \in AllocatedNames :
        /\ n.prefix = options.file_prefix
        /\ n.timestamp \in 0..now
        /\ n.ext = "pcap"

\* C20 (amended): every allocated name is the prefix, the second of the
\* allocation and the extension of the format: pcap for Pcap, pcapng for
\* PcapNg.
C20_ExtensionByFormat ==
    /\ allocs >= 1 => current_file_name.timestamp = file_creation_time
    /\ \A n \in AllocatedNames :
          /\ n.prefix = options.file_prefix
          /\ n.timestamp \in 0..now
          /\ options.file_format = "Pcap" => n.ext = "pcap"
          /\ options.file_format = "PcapNg" => n.ext = "pcapng"

\* Reached: a continuous PcapNg session has rolled over and holds two files
\* with packets, allocated in different seconds.
C20_Witness ==
    /\ options.file_format = "PcapNg"
    /\ options.continuous_capture
    /\ Len(closed) >= 1
    /\ closed[1].name.timestamp < current_file_name.timestamp
    /\ {closed[1].name, current_file_name} \subseteq DOMAIN disk
    /\ disk[closed[1].name] # <<>>
    /\ disk[current_file_name] # <<>>

\* The packets of one producer in the sequence s are in the order of their
\* submission.
InSubmissionOrder(s) ==
    \A i, j \in 1..Len(s) :
        (i < j /\ s[i].producer = s[j].producer) => s[i].id < s[j].id

\* C15: with several producers every packet the engine dequeues is handed to
\* the writer once -- no packet is written twice, and only a packet whose write
\* failed and ended the session is dequeued and not written -- and in the
\* output the packets of each producer are in that producer's submission
\* order, inside each file and across the files in the order of creation.
C15_ProducerOrderKept ==
    /\ \A i, j \in 1..Len(written) : i < j => written[i] # written[j]
    /\ \A n \in DOMAIN disk : \A i, j \in 1..Len(disk[n]) :
          i < j => disk[n][i].id # disk[n][j].id
    /\ \A n, m \in DOMAIN disk : n # m => Ids(disk[n]) \cap Ids(disk[m]) = {}
    /\ Len(written) = Pulled - (IF ended_by = "write_error" THEN 1 ELSE 0)
    /\ \A n \in DOMAIN disk : InSubmissionOrder(disk[n])
    /\ \A n, m \in DOMAIN disk :
          n.timestamp < m.timestamp => InSubmissionOrder(disk[n] \o disk[m])

\* Reached: two producers have submitted alternately, and the two packets of
\* one of them lie in two files with content, either side of a rollover.
C15_Witness ==
    /\ options.continuous_capture
    /\ Len(closed) >= 1
    /\ \E n, m \in DOMAIN disk :
          /\ n.timestamp < m.timestamp
          /\ \E i \in 1..Len(disk[n]), j \in 1..Len(disk[m]) :
                /\ disk[n][i].producer = disk[m][j].producer
                /\ disk[n][i].id + 2 = disk[m][j].id
          /\ \E i \in 1..Len(disk[n]), j \in 1..Len(disk[n]) :
                disk[n][i].producer # disk[n][j].producer

\* The user-supplied source has stopped delivering: the channel is empty and
\* no producer holds a handle, after capture() was called.
SourceStopped ==
    IsUser /\ pc # "idle" /\ queue = <<>> /\ producers = 0

\* The session was ended by an error: of the startup, of a write, of the
\* device.
EndedByError ==
    pc = "done" /\ ended_by \in {"startup", "write_error", "source_error"}

\* The session has returned Ok by the ceiling L, with one file created and
\* exactly L packets in it.
EndedAtCeiling ==
    /\ pc = "done"
    /\ result = "Ok"
    /\ ended_by = "ceiling"
    /\ allocs = 1
    /\ DOMAIN disk = {current_file_name}
    /\ Len(disk[current_file_name]) = options.packet_limit
    /\ packet_count_total = options.packet_limit

\* C16: a single-shot session with a ceiling L whose source keeps delivering
\* and which meets no error eventually returns Ok with exactly one file
\* holding exactly L packets.
C16_SingleShotReachesCeiling ==
    <>(EndedAtCeiling \/ EndedByError \/ SourceStopped)

\* Reached: a single-shot device session with the largest ceiling has timed
\* out on the way and has ended by the ceiling with its packets in one file.
C16_Witness ==
    /\ EndedAtCeiling
    /\ IsDevice
    /\ options.packet_limit = MaxLimit
    /\ timeouts >= 1
    /\ now >= 1

\* C18 (as stated): from the opening of the first file until the session ends
\* exactly one writer is live, also in the middle of a rollover.
C18_ExactlyOneWriter ==
    pc \in {"loop", "create", "pull"} => live_writers = 1

\* C18 (amended): never two writers are live; exactly one is while the engine
\* is at the top of the loop or in the pull, none is in the middle of a
\* rollover (old writer dropped, new file not yet created) and none is left
\* when the session has ended, by a failed opening of the new file too.
C18_AtMostOneWriter ==
    /\ live_writers \in {0, 1}
    /\ pc \in {"loop", "pull"} => live_writers = 1
    /\ pc \in {"idle", "create", "done"} => live_writers = 0

\* Reached: a continuous session is in the middle of its second rollover,
\* with packets written.
C18_Witness ==
    /\ pc = "create"
    /\ live_writers = 0
    /\ Len(closed) >= 2
    /\ Len(written) >= 1

\* At least one configured threshold is met by a file of `packets` packets and
\* `bytes` bytes that is `age` whole seconds old.
ThresholdMet(packets, bytes, age) ==
    \/ /\ options.rollover_time_seconds # None
       /\ age >= options.rollover_time_seconds
    \/ /\ options.rollover_packet_count # None
       /\ packets >= options.rollover_packet_count
    \/ /\ options.rollover_file_size_mb # None
       /\ bytes >= options.rollover_file_size_mb * 1048576

\* Byte counts around every explored byte threshold, and the sums of the
\* explored packet lengths.
ByteInputs ==
    {b \in UNION {{m * 1048576 - 1, m * 1048576, m * 1048576 + 1} :
                      m \in 0..(MaxRollMb + 1)} : b >= 0}
        \cup {k * 512 * Kib : k \in 0..(3 * MaxPackets)}

\* C19: check_needs_rollover is true exactly when at least one configured
\* threshold is met -- for every packet count, byte count and age of the
\* explored ranges, and in every evaluation a continuous loop makes, where
\* the rollover is taken exactly then.
C19_RolloverExactlyWhenThresholdMet ==
    /\ \A packets \in 0..(MaxPackets + 1), bytes \in ByteInputs,
             age \in 0..(MaxTime + 1) :
          check_needs_rollover(packets, bytes, age)
              <=> ThresholdMet(packets, bytes, age)
    /\ [][(/\ pc = "loop"
           /\ options.continuous_capture
           /\ pc' \in {"pull", "create"}) =>
              (pc' = "create" <=>
                  ThresholdMet(current_file_packet_count,
                               current_file_size_bytes,
                               now - file_creation_time))]_vars

\* Reached: with all three thresholds configured a rollover was taken on the
\* age alone: the closed file holds one packet of half a megabyte, below the
\* packet and the byte threshold.
C19_Witness ==
    /\ options.rollover_time_seconds = 1
    /\ options.rollover_packet_count = 2
    /\ options.rollover_file_size_mb = 1
    /\ Len(closed) = 1
    /\ closed[1].packets = 1
    /\ closed[1].name \in DOMAIN disk
    /\ closed[1].name # current_file_name
    /\ SumLen(disk[closed[1].name]) = 512 * Kib

\* C17: rollover_time_seconds = 30 alone, one packet per second for 65
\* seconds: once all packets are written there are exactly 3 files, created
\* in the seconds 0, 30 and 60 under three different names, the first two
\* closed after a full window with its 30 packets (one more or less, as the
\* packet of a window's first second is written before or after the check),
\* the third with the tail, and every delivered packet is in exactly one of
\* them.
C17_ThreeFilesIn65Seconds ==
    Len(written) = Scenario.seconds =>
        /\ allocs = 3
        /\ Len(closed) = 2
        /\ Cardinality(DOMAIN disk) = 3
        /\ {n.timestamp : n \in DOMAIN disk}
              = {0, Scenario.rollover_time_seconds,
                 2 * Scenario.rollover_time_seconds}
        /\ \A i \in 1..Len(closed) :
              /\ closed[i].packets >= Scenario.rollover_time_seconds - 1
              /\ closed[i].packets <= Scenario.rollover_time_seconds + 1
              /\ closed[i].packets = Len(disk[closed[i].name])
        /\ \A id \in 1..Scenario.seconds :
              Cardinality(FilesHolding(id)) = 1
        /\ current_file_packet_count >= 1
        /\ current_file_packet_count < Scenario.rollover_time_seconds - 1

\* Reached: the 65 packets are written, the last second has passed and the
\* device source has timed out on the way.
C17_Witness ==
    /\ Len(written) = Scenario.seconds
    /\ now = Scenario.seconds
    /\ IsDevice
    /\ timeouts >= 2
    /\ Cardinality(DOMAIN disk) = 3

\* Pulls of the source that have returned to the loop: with a packet, with a
\* read timeout, with a hard error.
PullsReturned ==
    Pulled + timeouts + (IF ended_by = "source_error" THEN 1 ELSE 0)

\* The session total has reached the configured ceiling.
AtCeiling ==
    options.packet_limit # None /\ packet_count_total >= options.packet_limit

\* The evaluations of the policy against the pulls: as many as pulls have
\* returned, and one more while the engine is on its way into the pull or in
\* it.
OneEvaluationPerPull ==
    (options.continuous_capture /\ Started) =>
        /\ pc \in {"create", "pull"} => evaluations = PullsReturned + 1
        /\ pc = "loop" => evaluations = PullsReturned
        /\ pc = "pull" => ~AtCeiling

\* C21: a continuous loop checks the ceiling, then evaluates the rollover
\* policy, then pulls, writes and counts: the policy is evaluated exactly
\* once before each pull, an evaluation is made only at the top of the loop
\* below the ceiling, a packet is written and counted only out of the pull,
\* and once the total has reached the ceiling no rollover is performed and
\* no file is allocated.
C21_LoopOrder ==
    [][/\ OneEvaluationPerPull'
       /\ options.continuous_capture =>
            /\ evaluations' \in {evaluations, evaluations + 1}
            /\ evaluations' # evaluations => (pc = "loop" /\ ~AtCeiling)
            /\ (pc = "loop" /\ pc' # pc /\ ~AtCeiling) =>
                  evaluations' = evaluations + 1
            /\ Len(closed') # Len(closed) => evaluations' = evaluations + 1
            /\ written' # written =>
                  (pc = "pull" /\ packet_count_total' = packet_count_total + 1)
            /\ (Started /\ AtCeiling) =>
                  /\ UNCHANGED <<closed, allocs, disk, evaluations, cursor>>
                  /\ pc' \in {pc, "done"}
                  /\ (pc = "loop" /\ pc' # pc) =>
                        (result' = "Ok" /\ ended_by' = "ceiling")]_vars

\* Reached: a continuous session ended by the ceiling after a rollover and a
\* read timeout, with a threshold met by the file that was current: the
\* rollover that was due was not performed.
C21_Witness ==
    /\ options.continuous_capture
    /\ ended_by = "ceiling"
    /\ Len(closed) >= 1
    /\ timeouts >= 1
    /\ packet_count_total >= 2
    /\ check_needs_rollover(current_file_packet_count,
                            current_file_size_bytes,
                            now - file_creation_time)
    /\ allocs = Len(closed) + 1

\* The step in which a rollover closes a file whose flush fails.
FlushFailsInRollover ==
    Len(closed') = Len(closed) + 1 /\ ~Last(closed').flushed

\* C22: a failed flush of the outgoing file does not end the session: the
\* rollover goes on as after a successful flush -- the old writer is dropped,
\* a new name is allocated, the per-file counters restart, the session is
\* still running and the new file is opened next -- and a packet written
\* after it goes to the file that rollover allocated, as that file's record
\* number current_file_packet_count.
C22_FlushFailureDoesNotAbort ==
    [][/\ FlushFailsInRollover =>
            /\ pc = "loop"
            /\ pc' = "create"
            /\ result' = "running"
            /\ ended_by' = "none"
            /\ live_writers' = 0
            /\ allocs' = allocs + 1
            /\ current_file_name' = create_new_file
            /\ file_creation_time' = now
            /\ current_file_packet_count' = 0
            /\ current_file_size_bytes' = 0
            /\ packet_count_total' = packet_count_total
            /\ Last(closed').name = current_file_name
       /\ (pc = "create" /\ ~Last(closed).flushed) =>
            /\ ENABLED OpenRolledFile
            /\ pc' = "done" => ended_by' = "create_error"
       /\ (FlushErrors >= 1 /\ written' # written) =>
            /\ Last(disk'[current_file_name]).id = Last(written')
            /\ Len(disk'[current_file_name]) = current_file_packet_count'
            /\ allocs = Len(closed) + 1]_vars

\* Reached: the flush of the first outgoing file failed, the new file was
\* opened in a later second and holds a packet written after the rollover, and
\* the session is running.
C22_Witness ==
    /\ Len(closed) = 1
    /\ ~closed[1].flushed
    /\ closed[1].packets >= 1
    /\ closed[1].name # current_file_name
    /\ pc \in {"loop", "pull"}
    /\ result = "running"
    /\ current_file_packet_count >= 1
    /\ current_file_name \in DOMAIN disk
    /\ Len(disk[current_file_name]) = current_file_packet_count

\* The step in which a pull of the device returns a read timeout.
TimeoutStep == timeouts' = timeouts + 1

\* What the rollover policy returns for the current file in this state.
PolicyVerdict ==
    check_needs_rollover(current_file_packet_count, current_file_size_bytes,
                         now - file_creation_time)

SingleShotSourceError ==
    ~options.continuous_capture /\ IsDevice /\ ended_by = "source_error"

\* C24: in single-shot device mode a hard error of the source ends the loop
\* in the step it is returned in, without a retry: the session is terminated
\* (capture() has returned), the packets written before are in the one file,
\* and from then on no packet is pulled and nothing is written, counted or
\* allocated.
C24_SingleShotHardErrorTerminates ==
    [][/\ SingleShotSourceError' =>
            /\ pc' = "done"
            /\ live_writers' = 0
            /\ allocs' = 1
            /\ DOMAIN disk' = {current_file_name'}
            /\ Ids(disk'[current_file_name']) = 1..Len(written')
            /\ Len(written') = sent'
            /\ packet_count_total' = Len(written')
            /\ disk' = disk
            /\ written' = written
            /\ sent' = sent
       /\ (SingleShotSourceError' /\ ~SingleShotSourceError) =>
            (pc = "pull" /\ timeouts' = timeouts)
       /\ SingleShotSourceError =>
            UNCHANGED <<pc, outcome, counters, cursor, closed, allocs,
                        timeouts, policy_vars>>]_vars

\* Reached: a single-shot device session below its ceiling was ended by a
\* hard error after a timeout, with a packet in its file.
C24_Witness ==
    /\ SingleShotSourceError
    /\ pc = "done"
    /\ result = "Ok"
    /\ timeouts >= 1
    /\ Len(written) = 2
    /\ Len(disk[current_file_name]) = 2
    /\ options.packet_limit = None

\* The current file has been opened: the engine is in the loop with its
\* writer, or has left the loop with it.
CurrentFileOpened ==
    \/ pc \in {"loop", "pull"}
    \/ pc = "done" /\ ended_by \notin {"startup", "create_error"}

\* The per-file counters against the records of the current file.
CountersDescribeCurrentFile ==
    (options.continuous_capture /\ CurrentFileOpened) =>
        /\ current_file_name \in DOMAIN disk
        /\ current_file_packet_count = Len(disk[current_file_name])
        /\ current_file_size_bytes = SumLen(disk[current_file_name])

\* C25: in continuous mode the per-file counters describe the current file:
\* the packet counter is the number of packets written to it since it was
\* opened, the byte counter the sum of their payload lengths; a step leaves
\* both, or writes one packet and adds one and its length, or is a rollover
\* and sets both to zero -- nothing else lowers them.
C25_FileCountersDescribeFile ==
    [][/\ CountersDescribeCurrentFile'
       /\ options.continuous_capture =>
            /\ \/ UNCHANGED <<current_file_packet_count,
                               current_file_size_bytes>>
               \/ /\ Len(written') = Len(written) + 1
                  /\ closed' = closed
                  /\ current_file_packet_count'
                        = current_file_packet_count + 1
                  /\ current_file_size_bytes'
                        = current_file_size_bytes
                            + Last(disk'[current_file_name]).len
               \/ /\ Len(closed') = Len(closed) + 1
                  /\ written' = written
                  /\ current_file_packet_count' = 0
                  /\ current_file_size_bytes' = 0
            /\ Len(closed') # Len(closed) =>
                  /\ current_file_packet_count' = 0
                  /\ current_file_size_bytes' = 0
                  /\ Last(closed').packets = current_file_packet_count]_vars

\* Reached: after a rollover that reset counters above zero the current file
\* holds two packets of different lengths, and the counters say two packets
\* and two binary megabytes.
C25_Witness ==
    /\ options.continuous_capture
    /\ Len(closed) = 1
    /\ closed[1].packets = 1
    /\ closed[1].name # current_file_name
    /\ pc = "loop"
    /\ current_file_packet_count = 2
    /\ current_file_size_bytes = 2048 * Kib
    /\ Len(disk[current_file_name]) = 2

\* max_size_mb * 1,048,576 as a number of six limbs: 1,048,576 = 16 * 65536,
\* a shift by one limb of sixteen times the value.
ExactThreshold(max_size_mb) ==
    <<0>> \o MulLimbs(max_size_mb, 16, 0)

\* C26: for every u64 value of rollover_file_size_mb the size test computes
\* the byte threshold rollover_file_size_mb * 1,048,576 exactly -- no panic,
\* no wrap modulo 2^64 -- and its verdict is that of the exact threshold.
C26_ThresholdNeverWraps ==
    size_check.result.status # "pending" =>
        /\ size_check.result.status = "value"
        /\ size_check.result.max_size_bytes \o <<0, 0>>
              = ExactThreshold(size_check.max_size_mb)
        /\ size_check.result.needs_rollover
              <=> GeLimbs(size_check.size_bytes \o <<0, 0>>,
                          ExactThreshold(size_check.max_size_mb))

\* The step in which capture() runs its startup.
StartupStep == pc = "idle" /\ pc' # "idle"

\* C27: when the output directory does not exist and cannot be created,
\* capture() fails with DirectoryCreationFailed before capture starts -- no
\* file is named or created, no capture handle is opened, no packet is pulled
\* from the device or from the channel, then or later -- and with no other
\* directory does it fail so; a directory that exists is left as it is.
C27_DirectoryCreationFailed ==
    [][/\ (StartupStep /\ dir = "blocked") =>
            /\ pc' = "done"
            /\ result' = "DirectoryCreationFailed"
            /\ dir' = "blocked"
       /\ (StartupStep /\ dir # "blocked") =>
            /\ result' # "DirectoryCreationFailed"
            /\ dir' = "exists"
       /\ result' = "DirectoryCreationFailed" =>
            /\ pc' = "done"
            /\ disk' = disk
            /\ DOMAIN disk' = {}
            /\ allocs' = 0
            /\ current_file_name' = NoFile
            /\ ~handle_open'
            /\ live_writers' = 0
            /\ Pulled' = 0
            /\ written' = <<>>
            /\ packet_count_total' = 0
            /\ evaluations' = 0
       /\ dir = "exists" => dir' = "exists"]_vars

\* Reached: capture() has failed with DirectoryCreationFailed on the
\* user-supplied source while submitted packets wait in the channel.
C27_Witness ==
    /\ result = "DirectoryCreationFailed"
    /\ dir = "blocked"
    /\ IsUser
    /\ Len(queue) >= 2
    /\ pc = "done"

\* C28: every file closed by a rollover holds at least one packet: no empty
\* file is rolled over, on an idle device with a time threshold or with a
\* threshold of zero.
C28_NoEmptyFileRolledOver ==
    \A i \in 1..Len(closed) : closed[i].packets >= 1

\* C29: with a ceiling of 0 a capture() that gets through its startup never
\* enters the pull -- it does not block on the source and takes no packet,
\* also when packets are waiting -- and returns Ok from its first ceiling
\* check: exactly one file was created, it holds no packet, the policy was
\* not evaluated and no rollover was made, in single-shot and in continuous
\* mode and whatever the thresholds.
C29_ZeroCeilingPullsNothing ==
    (options.packet_limit = 0 /\ Started) =>
        /\ pc \in {"loop", "done"}
        /\ pc = "loop" =>
              ENABLED (ContinuousLoopTop \/ SingleShotLoopTop)
        /\ pc = "done" => (result = "Ok" /\ ended_by = "ceiling")
        /\ Pulled = 0
        /\ timeouts = 0
        /\ now = 0
        /\ allocs = 1
        /\ DOMAIN disk = {current_file_name}
        /\ disk[current_file_name] = <<>>
        /\ closed = <<>>
        /\ evaluations = 0
        /\ packet_count_total = 0

\* Reached: a continuous session with a ceiling of 0 and thresholds of zero
\* has returned Ok while packets were waiting in the channel.
C29_Witness ==
    /\ options.packet_limit = 0
    /\ options.continuous_capture
    /\ options.rollover_packet_count = 0
    /\ options.rollover_time_seconds = 0
    /\ IsUser
    /\ Len(queue) >= 2
    /\ pc = "done"
    /\ result = "Ok"
    /\ Cardinality(DOMAIN disk) = 1

\* C30: capture() does not depend on process-wide state: called with a
\* logger already installed it runs its startup as a first call does -- it
\* does not panic, and it ends before a file is created only with an error of
\* the directory or of the device.
C30_CaptureIndependentOfLogger ==
    [][StartupStep =>
          /\ result' # "panic"
          /\ allocs' = 0 =>
                result' \in {"DirectoryCreationFailed", "InvalidDevice",
                             "PcapError"}]_vars

====
